---- MODULE Spec2Model ----
(***************************************************************************)
(* gnippy: PowerTrackClient and its Worker thread                          *)
(* (src/gnippy/powertrackclient.py) and PowerTrackJob                      *)
(* (src/gnippy/historical.py).                                             *)
(*                                                                         *)
(* Spec: one caller thread drives connect / wait / disconnect on one       *)
(* client; each Worker is a thread that opens the HTTP stream, hands every *)
(* non-empty line to the callback and polls its stop event after each      *)
(* line.  The server (status line, body lines, end of stream) and the      *)
(* callback (returns or raises) are the environment.                       *)
(* ConcSpec: two threads call connect() on one client, statement by        *)
(* statement.  JobSpec: one historical job is constructed and then         *)
(* posted, monitored, accepted or rejected.                                *)
(***************************************************************************)
EXTENDS Naturals, Sequences, FiniteSets

\* ---- bounds ------------------------------------------------------------
MaxLines == 3       \* lines the server sends on one connection
MaxCalls == 3       \* API calls the caller thread makes
MaxWorkers == 2     \* Worker objects that can be constructed
MaxDate == 2        \* instants a from_date / to_date can name
MaxJobCalls == 3    \* calls made on the historical job API

\* ---- values ------------------------------------------------------------
NoWorker == 0                       \* self.worker = None
WorkerIds == 1..MaxWorkers
Payload == <<"line1", "line2", "line3", "line4", "line5", "line6">>
\* what the server can send next: the empty keep-alive line b"", or the
\* next activity, numbered so that every non-empty line is distinct
Lines(sent) == {"", Payload[Len(SelectSeq(sent, LAMBDA l : l # "")) + 1]}
Timeouts == {"none", "finite"}      \* timeout=None or a number of seconds
Threads == {1, 2}                   \* threads that call connect() at once
None == "None"                      \* Python's None
NoArgs == <<>>                      \* PowerTrackJob(...) not called yet

VARIABLES
    worker,       \* PowerTrackClient.worker: NoWorker or a Worker id
    cpc,          \* caller thread: "idle", "join" (inside Thread.join), "is_alive"
    cop,          \* the caller's current or latest call
    ctimeout,     \* the timeout argument of that call
    cres,         \* what the latest completed call returned or raised
    cseen,        \* Len(calls) when the latest call completed
    nCalls,       \* API calls made so far
    pc,           \* per Worker: position of its thread
    stop_event,   \* per Worker: _stop_event
    resp,         \* per Worker: the response r: "none", "open", "closed"
    status,       \* per Worker: r.status_code (0: no response)
    nClose,       \* per Worker: number of r.close() calls
    exc,          \* per Worker: exception that left run(), or "none"
    wire,         \* per Worker: the lines the server has sent so far
    eof,          \* per Worker: the server has ended the stream
    idx,          \* per Worker: lines iter_lines() has yielded so far
    calls,        \* the arguments the callback was invoked with, in order
    inflight,     \* callback invocations entered and not yet left
    callsAtStop,  \* Len(calls) when stop() first set the client's worker's event
    stopBeforeGet, \* that stop() came before the worker issued its request
    tpc,          \* per racing thread: its position inside connect()
    tres,         \* per racing thread: what its connect() returned or raised
    job,          \* "none", or "made": a PowerTrackJob was constructed
    jargs,        \* the arguments of the latest PowerTrackJob(...) call
    jop,          \* the latest call on the job API
    jres,         \* what the latest call on the job API returned or raised
    job_url,              \* PowerTrackJob._job_url
    job_status,           \* PowerTrackJob._status
    job_status_message,   \* PowerTrackJob._status_message
    job_accepted_by,      \* PowerTrackJob._accepted_by
    job_accepted_at,      \* PowerTrackJob._accepted_at
    nPut,         \* PUT requests sent by accept()/reject()
    nJobCalls     \* calls made on the job API

callerVars == <<worker, cpc, cop, ctimeout, cres, cseen, nCalls>>
workerVars == <<pc, stop_event, resp, status, nClose, exc, idx>>
serverVars == <<wire, eof>>
cbVars == <<calls, inflight>>
histVars == <<callsAtStop, stopBeforeGet>>
raceVars == <<tpc, tres>>
jobFields == <<job_status, job_status_message, job_accepted_by,
               job_accepted_at>>
jobVars == <<job, jargs, jop, jres, job_url, job_status, job_status_message,
             job_accepted_by, job_accepted_at, nPut, nJobCalls>>
streamVars == <<callerVars, workerVars, serverVars, cbVars, histVars>>
vars == <<worker, cpc, cop, ctimeout, cres, cseen, nCalls, pc, stop_event,
          resp, status, nClose, exc, wire, eof, idx, calls, inflight,
          callsAtStop, stopBeforeGet, tpc, tres, job, jargs, jop, jres, job_url,
          job_status, job_status_message, job_accepted_by, job_accepted_at, nPut,
          nJobCalls>>

\* ---- helpers -----------------------------------------------------------
\* Thread.is_alive(): from start() until run() has left.
IsAlive(w) == pc[w] \notin {"unborn", "created", "finished"}

\* Worker.stopped()
Stopped(w) == stop_event[w]

\* Worker objects constructed so far.
Created == {w \in WorkerIds : pc[w] # "unborn"}

\* the lines response.iter_lines() has yielded so far
Received(w) == SubSeq(wire[w], 1, idx[w])

NonEmpty(s) == SelectSeq(s, LAMBDA l : l # "")

Init ==
    /\ worker = NoWorker
    /\ cpc = "idle" /\ cop = "none" /\ ctimeout = "none" /\ cres = "none"
    /\ cseen = 0 /\ nCalls = 0
    /\ pc = [w \in WorkerIds |-> "unborn"]
    /\ stop_event = [w \in WorkerIds |-> FALSE]
    /\ resp = [w \in WorkerIds |-> "none"]
    /\ status = [w \in WorkerIds |-> 0]
    /\ nClose = [w \in WorkerIds |-> 0]
    /\ exc = [w \in WorkerIds |-> "none"]
    /\ wire = [w \in WorkerIds |-> <<>>]
    /\ eof = [w \in WorkerIds |-> FALSE]
    /\ idx = [w \in WorkerIds |-> 0]
    /\ calls = <<>>
    /\ inflight = 0
    /\ callsAtStop = 0 /\ stopBeforeGet = FALSE
    /\ tpc = [t \in Threads |-> "idle"]
    /\ tres = [t \in Threads |-> "none"]
    /\ job = "none" /\ jargs = NoArgs /\ jop = "none" /\ jres = "none"
    /\ job_url = None
    /\ job_status = None /\ job_status_message = None
    /\ job_accepted_by = None /\ job_accepted_at = None
    /\ nPut = 0 /\ nJobCalls = 0

\* ---- the caller thread: PowerTrackClient ---------------------------------
\* Worker(url, auth, callback); daemon = True; start()
StartWorker(w) ==
    /\ pc' = [pc EXCEPT ![w] = "get"]
    /\ stop_event' = [stop_event EXCEPT ![w] = FALSE]
    /\ worker' = w

\* connect() without the re-entrancy check
ConnectUnguarded ==
    /\ cpc = "idle" /\ nCalls < MaxCalls
    /\ nCalls' = nCalls + 1 /\ cop' = "connect"
    /\ Cardinality(Created) < MaxWorkers
    /\ StartWorker(Cardinality(Created) + 1)
    /\ cres' = "ok"
    /\ cseen' = Len(calls)
    /\ UNCHANGED <<cpc, ctimeout, resp, status, nClose, exc, idx>>
    /\ UNCHANGED <<serverVars, cbVars>>
    /\ UNCHANGED <<histVars, raceVars, jobVars>>

Connect ==
    /\ cpc = "idle" /\ nCalls < MaxCalls
    /\ nCalls' = nCalls + 1 /\ cop' = "connect"
    /\ cseen' = Len(calls)
    /\ IF worker # NoWorker
       THEN /\ cres' = "RuntimeError"
            /\ UNCHANGED <<worker, pc, stop_event>>
       ELSE /\ Cardinality(Created) < MaxWorkers
            /\ StartWorker(Cardinality(Created) + 1)
            /\ cres' = "ok"
    /\ UNCHANGED <<cpc, ctimeout, resp, status, nClose, exc, idx>>
    /\ UNCHANGED <<serverVars, cbVars>>
    /\ UNCHANGED <<histVars, raceVars, jobVars>>

\* wait() that also asks the worker to stop
WaitStopping(t) ==
    /\ cpc = "idle" /\ nCalls < MaxCalls
    /\ nCalls' = nCalls + 1 /\ cop' = "wait" /\ ctimeout' = t
    /\ IF worker = NoWorker
       THEN /\ cres' = "AttributeError" /\ cseen' = Len(calls)
            /\ UNCHANGED <<cpc, stop_event>>
       ELSE /\ cpc' = "join"
            /\ stop_event' = [stop_event EXCEPT ![worker] = TRUE]
            /\ UNCHANGED <<cres, cseen>>
    /\ UNCHANGED <<worker, pc, resp, status, nClose, exc, idx>>
    /\ UNCHANGED <<serverVars, cbVars>>
    /\ UNCHANGED <<histVars, raceVars, jobVars>>

\* wait(timeout): self.worker.join(timeout=timeout) begins
Wait(t) ==
    /\ cpc = "idle" /\ nCalls < MaxCalls
    /\ nCalls' = nCalls + 1 /\ cop' = "wait" /\ ctimeout' = t
    /\ IF worker = NoWorker
       THEN /\ cres' = "AttributeError" /\ cseen' = Len(calls)
            /\ UNCHANGED cpc
       ELSE /\ cpc' = "join"
            /\ UNCHANGED <<cres, cseen>>
    /\ UNCHANGED <<worker, workerVars, serverVars, cbVars>>
    /\ UNCHANGED <<histVars, raceVars, jobVars>>

\* disconnect() whose stop() flips the event instead of setting it
DisconnectToggle(t) ==
    /\ cpc = "idle" /\ nCalls < MaxCalls
    /\ nCalls' = nCalls + 1 /\ cop' = "disconnect" /\ ctimeout' = t
    /\ IF worker = NoWorker
       THEN /\ cres' = "AttributeError" /\ cseen' = Len(calls)
            /\ UNCHANGED <<cpc, stop_event>>
       ELSE /\ cpc' = "join"
            /\ stop_event' = [stop_event EXCEPT ![worker] = ~@]
            /\ UNCHANGED <<cres, cseen>>
    /\ UNCHANGED <<worker, pc, resp, status, nClose, exc, idx>>
    /\ UNCHANGED <<serverVars, cbVars>>
    /\ UNCHANGED <<histVars, raceVars, jobVars>>

\* disconnect() that waits without setting the stop event
DisconnectNoStop(t) ==
    /\ cpc = "idle" /\ nCalls < MaxCalls
    /\ nCalls' = nCalls + 1 /\ cop' = "disconnect" /\ ctimeout' = t
    /\ IF worker = NoWorker
       THEN /\ cres' = "AttributeError" /\ cseen' = Len(calls)
            /\ UNCHANGED cpc
       ELSE /\ cpc' = "join"
            /\ UNCHANGED <<cres, cseen>>
    /\ UNCHANGED <<worker, workerVars, serverVars, cbVars>>
    /\ UNCHANGED <<histVars, raceVars, jobVars>>

\* disconnect(timeout): self.worker.stop(), then wait(timeout) begins
Disconnect(t) ==
    /\ cpc = "idle" /\ nCalls < MaxCalls
    /\ nCalls' = nCalls + 1 /\ cop' = "disconnect" /\ ctimeout' = t
    /\ IF worker = NoWorker
       THEN /\ cres' = "AttributeError" /\ cseen' = Len(calls)
            /\ UNCHANGED <<cpc, stop_event>>
       ELSE /\ cpc' = "join"
            /\ stop_event' = [stop_event EXCEPT ![worker] = TRUE]
            /\ UNCHANGED <<cres, cseen>>
    /\ UNCHANGED <<worker, pc, resp, status, nClose, exc, idx>>
    /\ UNCHANGED <<serverVars, cbVars>>
    /\ IF worker # NoWorker /\ ~stop_event[worker]
       THEN callsAtStop' = Len(calls) /\ stopBeforeGet' = (pc[worker] = "get")
       ELSE UNCHANGED histVars
    /\ UNCHANGED <<raceVars, jobVars>>

\* join() that returns only when its timeout elapses
JoinReturnTimeoutOnly ==
    /\ cpc = "join"
    /\ ctimeout = "finite"
    /\ cpc' = "is_alive"
    /\ UNCHANGED <<worker, cop, ctimeout, cres, cseen, nCalls>>
    /\ UNCHANGED <<workerVars, serverVars, cbVars>>
    /\ UNCHANGED <<histVars, raceVars, jobVars>>

\* Thread.join(timeout) returns: the thread has ended, or the timeout elapsed
JoinReturn ==
    /\ cpc = "join"
    /\ ctimeout = "finite" \/ ~IsAlive(worker)
    /\ cpc' = "is_alive"
    /\ UNCHANGED <<worker, cop, ctimeout, cres, cseen, nCalls>>
    /\ UNCHANGED <<workerVars, serverVars, cbVars>>
    /\ UNCHANGED <<histVars, raceVars, jobVars>>

\* wait() that raises in the caller what ended the worker's run()
WaitReturnReraising ==
    /\ cpc = "is_alive"
    /\ cres' = IF IsAlive(worker) THEN "True"
              ELSE IF exc[worker] # "none" THEN exc[worker] ELSE "False"
    /\ cseen' = Len(calls)
    /\ cpc' = "idle"
    /\ UNCHANGED <<worker, cop, ctimeout, nCalls>>
    /\ UNCHANGED <<workerVars, serverVars, cbVars>>
    /\ UNCHANGED <<histVars, raceVars, jobVars>>

\* return self.worker.is_alive()
WaitReturn ==
    /\ cpc = "is_alive"
    /\ cres' = IF IsAlive(worker) THEN "True" ELSE "False"
    /\ cseen' = Len(calls)
    /\ cpc' = "idle"
    /\ UNCHANGED <<worker, cop, ctimeout, nCalls>>
    /\ UNCHANGED <<workerVars, serverVars, cbVars>>
    /\ UNCHANGED <<histVars, raceVars, jobVars>>

\* ---- the server --------------------------------------------------------
\* the server writes one more line to the open stream
ServerSend(w, l) ==
    /\ resp[w] = "open" /\ ~eof[w]
    /\ Len(wire[w]) < MaxLines
    /\ wire' = [wire EXCEPT ![w] = Append(@, l)]
    /\ UNCHANGED <<eof, callerVars, workerVars, cbVars>>
    /\ UNCHANGED <<histVars, raceVars, jobVars>>

\* the server ends the stream
ServerClose(w) ==
    /\ resp[w] = "open" /\ ~eof[w]
    /\ eof' = [eof EXCEPT ![w] = TRUE]
    /\ UNCHANGED <<wire, callerVars, workerVars, cbVars>>
    /\ UNCHANGED <<histVars, raceVars, jobVars>>

\* ---- the worker thread: Worker.run / Worker.stream ------------------------
\* requests.get(self.url, auth=self.auth, stream=True): the transport fails,
\* or a response arrives with a success or an error status
WorkerGet(w) ==
    /\ pc[w] = "get"
    /\ \/ /\ exc' = [exc EXCEPT ![w] = "ConnectionError"]
          /\ pc' = [pc EXCEPT ![w] = "done"]
          /\ UNCHANGED <<resp, status>>
       \/ \E code \in {200, 500} :
             /\ resp' = [resp EXCEPT ![w] = "open"]
             /\ status' = [status EXCEPT ![w] = code]
             /\ pc' = [pc EXCEPT ![w] = "raise_for_status"]
             /\ UNCHANGED exc
    /\ UNCHANGED <<stop_event, nClose, idx, callerVars, serverVars, cbVars>>
    /\ UNCHANGED <<histVars, raceVars, jobVars>>

\* run() without r.raise_for_status()
WorkerRaiseForStatusSkipped(w) ==
    /\ pc[w] = "raise_for_status"
    /\ pc' = [pc EXCEPT ![w] = "iter"]
    /\ UNCHANGED <<stop_event, resp, status, nClose, exc, idx>>
    /\ UNCHANGED <<callerVars, serverVars, cbVars>>
    /\ UNCHANGED <<histVars, raceVars, jobVars>>

\* r.raise_for_status()
WorkerRaiseForStatus(w) ==
    /\ pc[w] = "raise_for_status"
    /\ IF status[w] >= 400
       THEN /\ exc' = [exc EXCEPT ![w] = "HTTPError"]
            /\ pc' = [pc EXCEPT ![w] = "exit"]
       ELSE /\ pc' = [pc EXCEPT ![w] = "iter"]
            /\ UNCHANGED exc
    /\ UNCHANGED <<stop_event, resp, status, nClose, idx>>
    /\ UNCHANGED <<callerVars, serverVars, cbVars>>
    /\ UNCHANGED <<histVars, raceVars, jobVars>>

\* stream() that looks at the stop event before it reads a line
WorkerNextLineStopFirst(w) ==
    /\ pc[w] = "iter"
    /\ \/ /\ Stopped(w)
          /\ pc' = [pc EXCEPT ![w] = "exit"]
          /\ UNCHANGED idx
       \/ /\ ~Stopped(w) /\ idx[w] < Len(wire[w])
          /\ idx' = [idx EXCEPT ![w] = @ + 1]
          /\ pc' = [pc EXCEPT ![w] = "line"]
       \/ /\ ~Stopped(w) /\ idx[w] = Len(wire[w]) /\ eof[w]
          /\ pc' = [pc EXCEPT ![w] = "exit"]
          /\ UNCHANGED idx
    /\ UNCHANGED <<stop_event, resp, status, nClose, exc>>
    /\ UNCHANGED <<callerVars, serverVars, cbVars>>
    /\ UNCHANGED <<histVars, raceVars, jobVars>>

\* for line in response.iter_lines(): the next line, or the end of the stream;
\* blocks while the server has sent nothing more and has not closed
WorkerNextLine(w) ==
    /\ pc[w] = "iter"
    /\ \/ /\ idx[w] < Len(wire[w])
          /\ idx' = [idx EXCEPT ![w] = @ + 1]
          /\ pc' = [pc EXCEPT ![w] = "line"]
       \/ /\ idx[w] = Len(wire[w]) /\ eof[w]
          /\ pc' = [pc EXCEPT ![w] = "exit"]
          /\ UNCHANGED idx
    /\ UNCHANGED <<stop_event, resp, status, nClose, exc>>
    /\ UNCHANGED <<callerVars, serverVars, cbVars>>
    /\ UNCHANGED <<histVars, raceVars, jobVars>>

\* stream() that hands a non-empty line to the callback twice
WorkerLineTwice(w) ==
    /\ pc[w] = "line"
    /\ IF wire[w][idx[w]] # ""
       THEN /\ calls' = calls \o <<wire[w][idx[w]], wire[w][idx[w]]>>
            /\ inflight' = inflight + 1
            /\ pc' = [pc EXCEPT ![w] = "on_data"]
       ELSE /\ pc' = [pc EXCEPT ![w] = "stopped"]
            /\ UNCHANGED cbVars
    /\ UNCHANGED <<stop_event, resp, status, nClose, exc, idx>>
    /\ UNCHANGED <<callerVars, serverVars>>
    /\ UNCHANGED <<histVars, raceVars, jobVars>>

\* stream() that hands every line, empty or not, to the callback
WorkerLineNoFilter(w) ==
    /\ pc[w] = "line"
    /\ calls' = Append(calls, wire[w][idx[w]])
    /\ inflight' = inflight + 1
    /\ pc' = [pc EXCEPT ![w] = "on_data"]
    /\ UNCHANGED <<stop_event, resp, status, nClose, exc, idx>>
    /\ UNCHANGED <<callerVars, serverVars>>
    /\ UNCHANGED <<histVars, raceVars, jobVars>>

\* if line: self.on_data(line) is entered
WorkerLine(w) ==
    /\ pc[w] = "line"
    /\ IF wire[w][idx[w]] # ""
       THEN /\ calls' = Append(calls, wire[w][idx[w]])
            /\ inflight' = inflight + 1
            /\ pc' = [pc EXCEPT ![w] = "on_data"]
       ELSE /\ pc' = [pc EXCEPT ![w] = "stopped"]
            /\ UNCHANGED cbVars
    /\ UNCHANGED <<stop_event, resp, status, nClose, exc, idx>>
    /\ UNCHANGED <<callerVars, serverVars>>
    /\ UNCHANGED <<histVars, raceVars, jobVars>>

\* stream() that dispatches the callback without waiting for it to return
CallbackDetached(w) ==
    /\ pc[w] = "on_data"
    /\ pc' = [pc EXCEPT ![w] = "stopped"]
    /\ UNCHANGED <<stop_event, resp, status, nClose, exc, idx>>
    /\ UNCHANGED <<callerVars, serverVars, cbVars>>
    /\ UNCHANGED <<histVars, raceVars, jobVars>>

\* self.on_data(line) returns
CallbackReturn(w) ==
    /\ pc[w] = "on_data"
    /\ inflight' = inflight - 1
    /\ pc' = [pc EXCEPT ![w] = "stopped"]
    /\ UNCHANGED <<calls, stop_event, resp, status, nClose, exc, idx>>
    /\ UNCHANGED <<callerVars, serverVars>>
    /\ UNCHANGED <<histVars, raceVars, jobVars>>

\* stream() that catches what the callback raises and goes on
CallbackRaiseCaught(w) ==
    /\ pc[w] = "on_data"
    /\ inflight' = inflight - 1
    /\ exc' = [exc EXCEPT ![w] = "CallbackError"]
    /\ pc' = [pc EXCEPT ![w] = "stopped"]
    /\ UNCHANGED <<calls, stop_event, resp, status, nClose, idx>>
    /\ UNCHANGED <<callerVars, serverVars>>
    /\ UNCHANGED <<histVars, raceVars, jobVars>>

\* self.on_data(line) raises: nothing catches it in stream() or run()
CallbackRaise(w) ==
    /\ pc[w] = "on_data"
    /\ inflight' = inflight - 1
    /\ exc' = [exc EXCEPT ![w] = "CallbackError"]
    /\ pc' = [pc EXCEPT ![w] = "exit"]
    /\ UNCHANGED <<calls, stop_event, resp, status, nClose, idx>>
    /\ UNCHANGED <<callerVars, serverVars>>
    /\ UNCHANGED <<histVars, raceVars, jobVars>>

\* stream() that never looks at the stop event
WorkerStoppedIgnored(w) ==
    /\ pc[w] = "stopped"
    /\ pc' = [pc EXCEPT ![w] = "iter"]
    /\ UNCHANGED <<stop_event, resp, status, nClose, exc, idx>>
    /\ UNCHANGED <<callerVars, serverVars, cbVars>>
    /\ UNCHANGED <<histVars, raceVars, jobVars>>

\* if self.stopped(): break
WorkerStopped(w) ==
    /\ pc[w] = "stopped"
    /\ pc' = [pc EXCEPT ![w] = IF Stopped(w) THEN "exit" ELSE "iter"]
    /\ UNCHANGED <<stop_event, resp, status, nClose, exc, idx>>
    /\ UNCHANGED <<callerVars, serverVars, cbVars>>
    /\ UNCHANGED <<histVars, raceVars, jobVars>>

\* run() that closes the response only when the block ends without exception
WorkerExitNoFinally(w) ==
    /\ pc[w] = "exit"
    /\ IF exc[w] = "none"
       THEN /\ resp' = [resp EXCEPT ![w] = "closed"]
            /\ nClose' = [nClose EXCEPT ![w] = @ + 1]
       ELSE UNCHANGED <<resp, nClose>>
    /\ pc' = [pc EXCEPT ![w] = "done"]
    /\ UNCHANGED <<stop_event, status, exc, idx>>
    /\ UNCHANGED <<callerVars, serverVars, cbVars>>
    /\ UNCHANGED <<histVars, raceVars, jobVars>>

\* leaving "with closing(...) as r": r.close(), on return and on exception
WorkerExit(w) ==
    /\ pc[w] = "exit"
    /\ resp' = [resp EXCEPT ![w] = "closed"]
    /\ nClose' = [nClose EXCEPT ![w] = @ + 1]
    /\ pc' = [pc EXCEPT ![w] = "done"]
    /\ UNCHANGED <<stop_event, status, exc, idx>>
    /\ UNCHANGED <<callerVars, serverVars, cbVars>>
    /\ UNCHANGED <<histVars, raceVars, jobVars>>

\* run() has returned or raised: the thread ends
WorkerEnd(w) ==
    /\ pc[w] = "done"
    /\ pc' = [pc EXCEPT ![w] = "finished"]
    /\ UNCHANGED <<stop_event, resp, status, nClose, exc, idx>>
    /\ UNCHANGED <<callerVars, serverVars, cbVars>>
    /\ UNCHANGED <<histVars, raceVars, jobVars>>

\* every step of Worker w's thread
WorkerThread(w) ==
    \/ WorkerGet(w)
    \/ WorkerRaiseForStatus(w)
    \/ WorkerNextLine(w)
    \/ WorkerLine(w)
    \/ CallbackReturn(w)
    \/ CallbackRaise(w)
    \/ WorkerStopped(w)
    \/ WorkerExit(w)
    \/ WorkerEnd(w)

Next ==
    \/ Connect
    \/ \E t \in Timeouts : Wait(t)
    \/ \E t \in Timeouts : Disconnect(t)
    \/ JoinReturn
    \/ WaitReturn
    \/ \E w \in WorkerIds : \E l \in Lines(wire[w]) : ServerSend(w, l)
    \/ \E w \in WorkerIds : ServerClose(w)
    \/ \E w \in WorkerIds : WorkerThread(w)

Spec == Init /\ [][Next]_vars

\* The scheduler runs a started thread that can take a step, and a callback
\* that was entered returns or raises.  Nothing obliges the server to send
\* or to close, nor the caller to make another call.
FairSpec == Spec /\ \A w \in WorkerIds : WF_vars(WorkerThread(w))

TypeOK ==
    /\ worker \in {NoWorker} \cup WorkerIds
    /\ cpc \in {"idle", "join", "is_alive"}
    /\ cop \in {"none", "connect", "wait", "disconnect"}
    /\ ctimeout \in Timeouts
    /\ cres \in {"none", "ok", "True", "False", "RuntimeError", "AttributeError"}
    /\ nCalls \in 0..MaxCalls
    /\ \A w \in WorkerIds :
          /\ pc[w] \in {"unborn", "created", "get", "raise_for_status", "iter", "line",
                        "on_data", "stopped", "exit", "done", "finished"}
          /\ resp[w] \in {"none", "open", "closed"}
          /\ idx[w] <= Len(wire[w]) /\ Len(wire[w]) <= MaxLines
    /\ inflight \in 0..MaxWorkers
    /\ \A t \in Threads :
          /\ tpc[t] \in {"idle", "assign", "daemon", "start", "done"}
          /\ tres[t] \in {"none", "ok", "RuntimeError"}
    /\ job \in {"none", "made"}
    /\ jop \in {"none", "create", "post", "monitor", "accept", "reject"}
    /\ jres \in {"none", "ok", "BadArgumentException", "TypeError",
                 "HTTPError", "KeyError", "ValueError", "MissingSchema",
                 "HistoricalJobStatusException"}
    /\ job_url \in {None, "url"}
    /\ nPut \in 0..MaxJobCalls /\ nJobCalls \in 0..MaxJobCalls

\* ---- connect() called from two threads -----------------------------------
\* Worker objects that were started: Thread.start() was called on them
Started == {w \in WorkerIds : pc[w] \notin {"unborn", "created"}}

\* connect(), line 40: if self.worker: raise RuntimeError
TConnectCheck(t) ==
    /\ tpc[t] = "idle"
    /\ IF worker # NoWorker
       THEN /\ tpc' = [tpc EXCEPT ![t] = "done"]
            /\ tres' = [tres EXCEPT ![t] = "RuntimeError"]
       ELSE /\ tpc' = [tpc EXCEPT ![t] = "assign"]
            /\ UNCHANGED tres
    /\ UNCHANGED <<streamVars, jobVars>>

\* connect(), line 44: self.worker = Worker(self.url, self.auth, self.callback)
TConnectAssign(t) ==
    /\ tpc[t] = "assign"
    /\ Cardinality(Created) < MaxWorkers
    /\ LET w == Cardinality(Created) + 1 IN
          /\ pc' = [pc EXCEPT ![w] = "created"]
          /\ stop_event' = [stop_event EXCEPT ![w] = FALSE]
          /\ worker' = w
    /\ tpc' = [tpc EXCEPT ![t] = "daemon"]
    /\ UNCHANGED <<tres, cpc, cop, ctimeout, cres, cseen, nCalls>>
    /\ UNCHANGED <<resp, status, nClose, exc, idx>>
    /\ UNCHANGED <<serverVars, cbVars, histVars, jobVars>>

\* connect(), line 45: self.worker.daemon = True; the setter raises
\* RuntimeError on a thread that was started
TConnectDaemon(t) ==
    /\ tpc[t] = "daemon"
    /\ IF worker \in Started
       THEN /\ tpc' = [tpc EXCEPT ![t] = "done"]
            /\ tres' = [tres EXCEPT ![t] = "RuntimeError"]
       ELSE /\ tpc' = [tpc EXCEPT ![t] = "start"]
            /\ UNCHANGED tres
    /\ UNCHANGED <<streamVars, jobVars>>

\* connect(), line 46: self.worker.start(); a thread is started once only
TConnectStart(t) ==
    /\ tpc[t] = "start"
    /\ tpc' = [tpc EXCEPT ![t] = "done"]
    /\ IF worker \in Started
       THEN /\ tres' = [tres EXCEPT ![t] = "RuntimeError"]
            /\ UNCHANGED pc
       ELSE /\ tres' = [tres EXCEPT ![t] = "ok"]
            /\ pc' = [pc EXCEPT ![worker] = "get"]
    /\ UNCHANGED <<worker, cpc, cop, ctimeout, cres, cseen, nCalls>>
    /\ UNCHANGED <<stop_event, resp, status, nClose, exc, idx>>
    /\ UNCHANGED <<serverVars, cbVars, histVars, jobVars>>

\* PowerTrackClient.connect run by thread t
TConnect(t) ==
    \/ TConnectCheck(t)
    \/ TConnectAssign(t)
    \/ TConnectDaemon(t)
    \/ TConnectStart(t)

ConcNext ==
    \/ \E t \in Threads : TConnect(t)
    \/ \E w \in WorkerIds : \E l \in Lines(wire[w]) : ServerSend(w, l)
    \/ \E w \in WorkerIds : ServerClose(w)
    \/ \E w \in WorkerIds : WorkerThread(w)

ConcSpec == Init /\ [][ConcNext]_vars

\* ---- historical jobs: PowerTrackJob ---------------------------------------
MaxRules == 1000

VALID_DATA_FORMATS == {"activity-streams", "original"}

\* a from_date / to_date argument: a datetime (an instant, naive or
\* timezone-aware) or something that is no datetime
Dates ==
    {[kind |-> "other", t |-> 0, aware |-> FALSE]}
        \cup [kind : {"datetime"}, t : 1..MaxDate, aware : BOOLEAN]

\* a title argument: text or not (None, bytes, a number), empty/falsy or not
Titles == [kind : {"text", "other"}, value : {"", "title"}]

\* a rules argument: a list of len entries, or something that is no list
Rules ==
    {[kind |-> "other", len |-> 0]}
        \cup [kind : {"list"}, len : {0, MaxRules, MaxRules + 1}]

\* the arguments of PowerTrackJob(...); "[list]" is a data_format that
\* cannot be hashed
JobArgs ==
    [publisher : {"twitter", "other"},
     stream_type : {"track", "other"},
     data_format : VALID_DATA_FORMATS \cup {"csv", "[list]"},
     from_date : Dates, to_date : Dates, title : Titles, rules : Rules]

\* PowerTrackJob._validate: the first check that fails decides; a set
\* lookup of an unhashable value and an order comparison of a naive with an
\* aware datetime raise TypeError
Validate(a) ==
    IF a.publisher # "twitter" THEN "BadArgumentException"
    ELSE IF a.stream_type # "track" THEN "BadArgumentException"
    ELSE IF a.data_format = "[list]" THEN "TypeError"
    ELSE IF a.data_format \notin VALID_DATA_FORMATS THEN "BadArgumentException"
    ELSE IF a.from_date.kind # "datetime" THEN "BadArgumentException"
    ELSE IF a.to_date.kind # "datetime" THEN "BadArgumentException"
    ELSE IF a.to_date.aware # a.from_date.aware THEN "TypeError"
    ELSE IF a.to_date.t <= a.from_date.t THEN "BadArgumentException"
    ELSE IF ~(a.title.value # "" /\ a.title.kind = "text")
         THEN "BadArgumentException"
    ELSE IF a.rules.kind # "list" THEN "BadArgumentException"
    ELSE IF a.rules.len > MaxRules THEN "BadArgumentException"
    ELSE "ok"

\* HistoricalPowerTrackClient.create_job / PowerTrackJob.__init__; a
\* behaviour follows one constructor call and the job it made
CreateJob(a) ==
    /\ jop = "none" /\ nJobCalls < MaxJobCalls
    /\ nJobCalls' = nJobCalls + 1 /\ jop' = "create"
    /\ jargs' = a
    /\ jres' = Validate(a)
    /\ job' = IF Validate(a) = "ok" THEN "made" ELSE "none"
    /\ job_url' = None /\ job_status' = None /\ job_status_message' = None
    /\ job_accepted_by' = None /\ job_accepted_at' = None
    /\ UNCHANGED <<nPut, streamVars, raceVars>>

\* the keys of a job document
Keys ==
    {"account", "jobURL", "requestedBy", "requestedAt", "status",
     "statusMessage", "acceptedBy", "acceptedAt"}

JobStatuses == {"estimating", "quoted", "accepted", "rejected"}

\* what the server answers: an error status, or a JSON document with all
\* keys or all but one; acceptedAt is a well-formed timestamp or not
Responses ==
    [code : {200, 500},
     keys : {Keys} \cup {Keys \ {k} : k \in Keys},
     status : JobStatuses,
     acceptedAt : {"2015-01-01T00:00:00Z", "garbage"}]

\* iso8601_to_dt
iso8601_to_dt(str) == IF str = "garbage" THEN "ValueError" ELSE <<"datetime", str>>

\* PowerTrackJob._update(data): assignments in source order, the first
\* missing required key or malformed timestamp raises and leaves what was
\* assigned before it
Update(data) ==
    IF ~({"account", "jobURL", "requestedBy", "requestedAt"} \subseteq data.keys)
    THEN /\ jres' = "KeyError"
         /\ job_url' = IF {"account", "jobURL"} \subseteq data.keys
                       THEN "url" ELSE job_url
         /\ UNCHANGED jobFields
    ELSE /\ job_url' = "url"
         /\ IF "status" \notin data.keys
            THEN jres' = "KeyError" /\ UNCHANGED jobFields
            ELSE /\ job_status' = data.status
                 /\ IF "statusMessage" \notin data.keys
                    THEN /\ jres' = "KeyError"
                         /\ UNCHANGED <<job_status_message, job_accepted_by,
                                        job_accepted_at>>
                    ELSE /\ job_status_message' = <<"message", data.status>>
                         /\ job_accepted_by' =
                               IF "acceptedBy" \in data.keys THEN "user" ELSE None
                         /\ IF "acceptedAt" \notin data.keys
                            THEN job_accepted_at' = None /\ jres' = "ok"
                            ELSE IF iso8601_to_dt(data.acceptedAt) = "ValueError"
                            THEN /\ jres' = "ValueError"
                                 /\ UNCHANGED job_accepted_at
                            ELSE /\ job_accepted_at' = iso8601_to_dt(data.acceptedAt)
                                 /\ jres' = "ok"

\* PowerTrackJob.post
Post(r) ==
    /\ job = "made" /\ nJobCalls < MaxJobCalls
    /\ nJobCalls' = nJobCalls + 1 /\ jop' = "post"
    /\ IF r.code >= 400
       THEN jres' = "HTTPError" /\ UNCHANGED <<job_url, jobFields>>
       ELSE Update(r)
    /\ UNCHANGED <<job, jargs, nPut, streamVars, raceVars>>

\* PowerTrackJob.monitor
Monitor(r) ==
    /\ job = "made" /\ nJobCalls < MaxJobCalls
    /\ nJobCalls' = nJobCalls + 1 /\ jop' = "monitor"
    /\ IF job_url = None
       THEN jres' = "MissingSchema" /\ UNCHANGED <<job_url, jobFields>>
       ELSE IF r.code >= 400
       THEN jres' = "HTTPError" /\ UNCHANGED <<job_url, jobFields>>
       ELSE Update(r)
    /\ UNCHANGED <<job, jargs, nPut, streamVars, raceVars>>

\* the assignments of _accept_or_reject from the PUT's JSON document, in
\* source order
AcceptAssign(data) ==
    IF "status" \notin data.keys
    THEN jres' = "KeyError" /\ UNCHANGED jobFields
    ELSE /\ job_status' = data.status
         /\ IF "statusMessage" \notin data.keys
            THEN /\ jres' = "KeyError"
                 /\ UNCHANGED <<job_status_message, job_accepted_by,
                                job_accepted_at>>
            ELSE /\ job_status_message' = <<"message", data.status>>
                 /\ IF "acceptedBy" \notin data.keys
                    THEN /\ jres' = "KeyError"
                         /\ UNCHANGED <<job_accepted_by, job_accepted_at>>
                    ELSE /\ job_accepted_by' = "user"
                         /\ IF "acceptedAt" \notin data.keys
                            THEN jres' = "KeyError" /\ UNCHANGED job_accepted_at
                            ELSE IF iso8601_to_dt(data.acceptedAt) = "ValueError"
                            THEN jres' = "ValueError" /\ UNCHANGED job_accepted_at
                            ELSE /\ job_accepted_at' = iso8601_to_dt(data.acceptedAt)
                                 /\ jres' = "ok"

\* _accept_or_reject without the status check
AcceptOrRejectUnguarded(verb, r) ==
    /\ job = "made" /\ nJobCalls < MaxJobCalls
    /\ nJobCalls' = nJobCalls + 1 /\ jop' = verb
    /\ nPut' = nPut + 1
    /\ IF r.code >= 400
       THEN jres' = "HTTPError" /\ UNCHANGED jobFields
       ELSE AcceptAssign(r)
    /\ UNCHANGED <<job, jargs, job_url, streamVars, raceVars>>

\* PowerTrackJob._accept_or_reject(verb)
AcceptOrReject(verb, r) ==
    /\ job = "made" /\ nJobCalls < MaxJobCalls
    /\ nJobCalls' = nJobCalls + 1 /\ jop' = verb
    /\ IF job_status # "quoted"
       THEN /\ jres' = "HistoricalJobStatusException"
            /\ UNCHANGED <<nPut, jobFields>>
       ELSE /\ nPut' = nPut + 1
            /\ IF r.code >= 400
               THEN jres' = "HTTPError" /\ UNCHANGED jobFields
               ELSE AcceptAssign(r)
    /\ UNCHANGED <<job, jargs, job_url, streamVars, raceVars>>

\* PowerTrackJob.accept
Accept(r) == AcceptOrReject("accept", r)

\* PowerTrackJob.reject
Reject(r) == AcceptOrReject("reject", r)

JobNext ==
    \/ \E a \in JobArgs : CreateJob(a)
    \/ \E r \in Responses : Post(r)
    \/ \E r \in Responses : Monitor(r)
    \/ \E r \in Responses : Accept(r)
    \/ \E r \in Responses : Reject(r)

JobSpec == Init /\ [][JobNext]_vars

\* ---- properties ----------------------------------------------------------
IsPrefix(s, t) == Len(s) <= Len(t) /\ SubSeq(t, 1, Len(s)) = s

\* a step in which the caller begins the call op
Calls(op) == nCalls' = nCalls + 1 /\ cop' = op

\* a step in which the caller's call op returns the result of is_alive()
Returns(op) == cop = op /\ cpc = "is_alive" /\ cpc' = "idle"

\* C1: once connect() has stored a Worker, every later connect() raises
\* RuntimeError, constructs and starts no Worker and leaves client.worker
\* as it was, whatever the state of the first Worker; so at most one Worker
\* ever exists.
C1_SecondConnectRejected ==
    /\ [](Cardinality(Created) <= 1)
    /\ [][(Calls("connect") /\ worker # NoWorker)
            => /\ cres' = "RuntimeError"
               /\ worker' = worker
               /\ Created' = Created
               /\ pc' = pc /\ stop_event' = stop_event]_vars
    /\ [][worker # NoWorker => worker' = worker]_vars

\* C1 witness: connect() was rejected after disconnect() and after the
\* first worker had finished.
C1_Witness ==
    /\ cop = "connect" /\ cres = "RuntimeError"
    /\ worker # NoWorker /\ stop_event[worker] /\ pc[worker] = "finished"

\* C2: the callback has been invoked exactly once, in arrival order, for
\* every non-empty line the worker has taken from the stream and never for
\* an empty one; a stream read to its end with no stop request and no
\* exception delivers exactly its non-empty lines.
C2_NonEmptyLinesDelivered ==
    worker # NoWorker =>
        LET w == worker IN
        /\ pc[w] # "line" => calls = NonEmpty(Received(w))
        /\ pc[w] = "line" => calls = NonEmpty(SubSeq(wire[w], 1, idx[w] - 1))
        /\ (pc[w] = "finished" /\ exc[w] = "none" /\ ~stop_event[w])
              => calls = NonEmpty(wire[w])

\* C2 witness: the stream line1, empty, line2 was read to its end and the
\* callback recorded line1, line2.
C2_Witness ==
    /\ worker # NoWorker /\ pc[worker] = "finished"
    /\ wire[worker] = <<"line1", "", "line2">>
    /\ calls = <<"line1", "line2">>

\* C4: a callback invocation is in flight only while the worker thread is
\* inside on_data, so at most one at a time; invocations follow wire order;
\* none starts once the worker has finished.
C4_OneCallbackAtATime ==
    /\ [](inflight <= 1)
    /\ [](inflight = IF worker # NoWorker /\ pc[worker] = "on_data" THEN 1 ELSE 0)
    /\ [](worker # NoWorker => IsPrefix(calls, NonEmpty(Received(worker))))
    /\ [][(worker # NoWorker /\ pc[worker] = "finished")
            => (calls' = calls /\ inflight' = 0)]_vars

\* C4 witness: the worker has finished after two callback invocations while
\* the caller was inside join().
C4_Witness ==
    /\ worker # NoWorker /\ pc[worker] = "finished"
    /\ Len(calls) = 2 /\ inflight = 0 /\ cpc = "join"

\* C6: a response that was obtained is closed exactly once, before the
\* thread ends, on every way out of run(); it is never closed twice and
\* never left open by a finished worker.
C6_ResponseClosedOnce ==
    \A w \in WorkerIds :
        /\ nClose[w] <= 1
        /\ resp[w] = "closed" <=> nClose[w] = 1
        /\ (pc[w] \in {"done", "finished"} /\ resp[w] # "none")
              => (resp[w] = "closed" /\ nClose[w] = 1)

\* C6 witness: the callback raised, and the finished worker's response is
\* closed.
C6_Witness ==
    /\ worker # NoWorker /\ pc[worker] = "finished"
    /\ exc[worker] = "CallbackError" /\ resp[worker] = "closed"

\* wait(None) and disconnect(None) return False: join() without a timeout
\* returns only once the thread has ended
JoinNoneReturnsFalse ==
    (cpc = "is_alive" /\ cpc' = "idle" /\ ctimeout = "none") => cres' = "False"

\* the worker is not waiting for the server: it is handling a line, or a
\* line or the end of the stream is there for it to read
Unblocked(w) ==
    /\ pc[w] \notin {"unborn", "get"}
    /\ ~(/\ pc[w] \in {"raise_for_status", "iter"}
         /\ status[w] < 400
         /\ idx[w] = Len(wire[w]) /\ ~eof[w])

\* C3, as claimed: whenever stop() has been requested on a started worker,
\* the worker eventually reaches finished.
C3_StopAlwaysHonored ==
    \A w \in WorkerIds :
        (stop_event[w] /\ pc[w] # "unborn") ~> (pc[w] = "finished")

\* C3, amended: a stop request is honoured once the worker has a line or the
\* end of the stream to receive (or is already handling a line): it then
\* reaches finished, and never goes back to read after a stop check that
\* found the flag set; wait(None) / disconnect(None) return False.  While the
\* server sends nothing and keeps the stream open the worker stays in the
\* read and does not see the flag.
C3_StopHonoredUnlessSilent ==
    /\ \A w \in WorkerIds :
          (stop_event[w] /\ Unblocked(w)) ~> (pc[w] = "finished")
    /\ [][\A w \in WorkerIds :
             (pc[w] = "stopped" /\ stop_event[w]) => pc'[w] \in {"stopped", "exit"}]_vars
    /\ [][JoinNoneReturnsFalse]_vars

\* C3 witness: disconnect(None) returned False for a worker that left the
\* loop on the stop flag with an unread line still on the wire.
C3_Witness ==
    /\ cop = "disconnect" /\ cpc = "idle" /\ cres = "False"
    /\ ctimeout = "none"
    /\ pc[worker] = "finished" /\ exc[worker] = "none"
    /\ idx[worker] < Len(wire[worker])

\* C5: when the transport fails or the status is an error status, connect()
\* has still returned normally, the callback is never invoked, the worker
\* goes on to finished with any response closed, and wait(None) returns
\* False.
C5_OpenFailureFinishesSilently ==
    /\ [](\A w \in WorkerIds :
            (exc[w] = "ConnectionError" \/ status[w] >= 400)
               => /\ calls = <<>> /\ inflight = 0
                  /\ pc[w] \in {"raise_for_status", "exit", "done", "finished"}
                  /\ pc[w] \in {"done", "finished"} => resp[w] # "open"
                  /\ worker = w)
    /\ \A w \in WorkerIds :
          (exc[w] = "ConnectionError" \/ status[w] >= 400) ~> (pc[w] = "finished")
    /\ [][(Calls("connect") /\ worker = NoWorker) => cres' = "ok"]_vars
    /\ [][JoinNoneReturnsFalse]_vars

\* C5 witness: the server answered 500 and sent a body; wait(None) returned
\* False and the callback was never invoked.
C5_Witness ==
    /\ cop = "wait" /\ cpc = "idle" /\ cres = "False" /\ ctimeout = "none"
    /\ status[worker] = 500 /\ exc[worker] = "HTTPError"
    /\ Len(wire[worker]) > 0 /\ calls = <<>>
    /\ resp[worker] = "closed" /\ pc[worker] = "finished"

\* C7, as claimed: wait() and disconnect() on a client that never connected
\* fail with a deliberate precondition error, not with the attribute error
\* of reaching through the missing worker.
C7_PreconditionError ==
    (cop \in {"wait", "disconnect"} /\ cpc = "idle" /\ worker = NoWorker)
        => cres # "AttributeError"

\* C8: no step of wait() changes the worker, the stream or the callback
\* record: the stop flag, the response and the worker's position are as
\* they were; wait() returns True when the worker is alive at is_alive().
C8_WaitLeavesWorkerAlone ==
    /\ [][(Calls("wait") \/ (cop = "wait" /\ cpc # "idle" /\ cpc' # cpc))
            => UNCHANGED <<worker, workerVars, serverVars, cbVars>>]_vars
    /\ [][Returns("wait")
            => cres' = IF IsAlive(worker) THEN "True" ELSE "False"]_vars

\* C8 witness: wait(timeout) returned True, the stop flag is clear, the
\* response is open and the callback has since been given another line.
C8_Witness ==
    /\ cop = "wait" /\ cpc = "idle" /\ cres = "True"
    /\ ~stop_event[worker] /\ resp[worker] = "open"
    /\ Len(calls) > cseen

\* C9: disconnect() sets the stop flag before it waits; it returns True when
\* the worker is alive at is_alive() and False when it has ended; the flag
\* stays set, and a worker that checks it set leaves the loop.
C9_DisconnectStopsThenWaits ==
    /\ []((cop = "disconnect" /\ worker # NoWorker) => stop_event[worker])
    /\ [][Returns("disconnect")
            => cres' = IF IsAlive(worker) THEN "True" ELSE "False"]_vars
    /\ [][\A w \in WorkerIds : stop_event[w] => stop_event'[w]]_vars
    /\ [][\A w \in WorkerIds :
             (pc[w] = "stopped" /\ stop_event[w] /\ pc'[w] # pc[w])
                => pc'[w] = "exit"]_vars

\* C9 witness: disconnect(timeout) returned True, and the worker has since
\* left the loop on the flag, with an unread line still on the wire.
C9_Witness ==
    /\ cop = "disconnect" /\ cpc = "idle" /\ cres = "True"
    /\ stop_event[worker] /\ exc[worker] = "none"
    /\ pc[worker] = "exit" /\ idx[worker] < Len(wire[worker])

\* C10: when the callback raises, the worker is on its way out: it invokes
\* the callback no more, closes the response and ends; the caller sees no
\* exception, wait() returns False once the thread has ended.
C10_CallbackErrorEndsWorker ==
    /\ [](\A w \in WorkerIds :
            exc[w] = "CallbackError"
               => /\ pc[w] \in {"exit", "done", "finished"}
                  /\ pc[w] \in {"done", "finished"} => resp[w] = "closed")
    /\ [][(worker # NoWorker /\ exc[worker] = "CallbackError")
            => calls' = calls]_vars
    /\ [][(Returns("wait") /\ exc[worker] = "CallbackError"
               /\ pc[worker] = "finished")
            => cres' = "False"]_vars

\* C10 witness: the callback raised on the first line with more lines on the
\* wire; wait() returned False and only that one line was ever delivered.
C10_Witness ==
    /\ cop = "wait" /\ cpc = "idle" /\ cres = "False"
    /\ exc[worker] = "CallbackError" /\ pc[worker] = "finished"
    /\ Len(calls) = 1 /\ Len(wire[worker]) > 1

\* C11: what wait() and disconnect() give the caller once the worker has
\* finished is False, whatever ended the worker: end of stream, stop
\* request, failed open or callback exception; no exception of the worker
\* reaches the caller.
C11_OutcomeHidesReason ==
    /\ [][(cpc = "is_alive" /\ cpc' = "idle" /\ pc[worker] = "finished")
            => cres' = "False"]_vars
    /\ [](cres \in {"none", "ok", "True", "False", "RuntimeError", "AttributeError"})

\* C11 witness: disconnect() returned False for a worker that ended on a
\* transport failure.
C11_Witness ==
    /\ cop = "disconnect" /\ cpc = "idle" /\ cres = "False"
    /\ pc[worker] = "finished" /\ exc[worker] = "ConnectionError"

\* lifecycle stage of a Worker: 0 not started, 1 running, 2 finished
Stage(w) ==
    IF pc[w] \in {"unborn", "created"} THEN 0
    ELSE IF pc[w] = "finished" THEN 2 ELSE 1

\* C12: a Worker's lifecycle only moves forward, one stage at a time; only a
\* connect() step makes it running; a finished Worker stays finished; and
\* on a finished Worker join() returns at once and the call returns False,
\* with or without a timeout.
C12_LifecycleForward ==
    /\ [][\A w \in WorkerIds :
             /\ Stage(w)' >= Stage(w) /\ Stage(w)' <= Stage(w) + 1
             /\ (Stage(w) = 0 /\ Stage(w)' = 1) => Calls("connect")]_vars
    /\ []((cpc = "join" /\ pc[worker] = "finished") => ENABLED JoinReturn)
    /\ [][(cpc = "is_alive" /\ pc[worker] = "finished" /\ cpc' = "idle")
            => cres' = "False"]_vars

\* C12 witness: wait(None) was called on a finished worker and returned
\* False.
C12_Witness ==
    /\ cop = "wait" /\ ctimeout = "none" /\ cpc = "idle" /\ cres = "False"
    /\ pc[worker] = "finished" /\ nCalls = 3

\* C13: the stop event is clear when the Worker is constructed, is never
\* cleared once set, and disconnect() on a Worker whose event is set
\* changes nothing of the worker, the stream or the callback record.
C13_StopFlagMonotonic ==
    /\ [][\A w \in WorkerIds :
             /\ (pc[w] = "unborn" /\ pc'[w] # "unborn") => ~stop_event'[w]
             /\ stop_event[w] => stop_event'[w]]_vars
    /\ [][(Calls("disconnect") /\ worker # NoWorker)
            => /\ stop_event' = [stop_event EXCEPT ![worker] = TRUE]
               /\ UNCHANGED <<pc, resp, status, nClose, exc, idx>>
               /\ UNCHANGED <<serverVars, cbVars>>]_vars
    /\ [][(Calls("disconnect") /\ worker # NoWorker /\ stop_event[worker])
            => UNCHANGED <<workerVars, serverVars, cbVars>>]_vars

\* C13 witness: disconnect() was called as the third call on a worker that
\* had already finished on the stop flag.
C13_Witness ==
    /\ nCalls = 3 /\ cop = "disconnect" /\ cpc = "idle" /\ cres = "False"
    /\ stop_event[worker] /\ pc[worker] = "finished"
    /\ exc[worker] = "none" /\ idx[worker] < Len(wire[worker])

\* C16: the callback record is always a prefix of the non-empty lines taken
\* from the stream, at most one line behind, and holds no line twice.
C16_CallsPrefixOfReceived ==
    /\ worker = NoWorker => calls = <<>>
    /\ worker # NoWorker =>
          /\ IsPrefix(calls, NonEmpty(Received(worker)))
          /\ Len(NonEmpty(Received(worker))) <= Len(calls) + 1
    /\ \A i, j \in 1..Len(calls) : calls[i] = calls[j] => i = j

\* C16 witness: with the stop flag set, a second non-empty line has been
\* taken from the stream and not yet handed to the callback.
C16_Witness ==
    /\ worker # NoWorker /\ stop_event[worker] /\ pc[worker] = "line"
    /\ Len(calls) = 1 /\ Len(NonEmpty(Received(worker))) = 2

\* C17: once the stop event is set, at most one more callback invocation
\* starts; the worker that finds the event set at its check leaves the loop
\* and closes the response, whatever is left on the wire.
C17_AtMostOneMoreCallback ==
    /\ []((worker # NoWorker /\ stop_event[worker])
            => Len(calls) <= callsAtStop + 1)
    /\ [][\A w \in WorkerIds :
             (pc[w] = "stopped" /\ stop_event[w] /\ pc'[w] # pc[w])
                => pc'[w] = "exit"]_vars
    /\ [](\A w \in WorkerIds :
            (stop_event[w] /\ pc[w] \in {"done", "finished"} /\ resp[w] # "none")
               => resp[w] = "closed")

\* C17 witness: one callback started after the stop request; the worker has
\* finished and closed the response with unread lines left on the wire.
C17_Witness ==
    /\ worker # NoWorker /\ stop_event[worker]
    /\ Len(calls) = callsAtStop + 1
    /\ pc[worker] = "finished" /\ resp[worker] = "closed"
    /\ exc[worker] = "none" /\ idx[worker] < Len(wire[worker])

\* the worker is inside iter_lines() with nothing to read
Silent(w) == pc[w] = "iter" /\ idx[w] = Len(wire[w]) /\ ~eof[w]

\* C18, as claimed: a worker whose stop was requested before it opened the
\* connection delivers the first non-empty line: when it leaves the loop on
\* the flag with a non-empty line on the wire, the callback has been invoked.
C18_FirstNonEmptyLineDelivered ==
    [][(/\ worker # NoWorker /\ stopBeforeGet
        /\ pc[worker] = "stopped" /\ pc'[worker] = "exit"
        /\ NonEmpty(wire[worker]) # <<>>)
          => calls # <<>>]_vars

\* C18, amended: the stop event is looked at only after a line, empty or
\* not: the loop is left only from the check that follows a line, at the end
\* of the stream, or by an exception.  A worker stopped before it issued its
\* request still issues it and takes exactly one line: a non-empty first
\* line is handed to the callback, an empty one is not and ends the loop all
\* the same.  A worker with nothing to read cannot move, so it stays alive,
\* disconnect(None) stays inside join() and disconnect(timeout) returns True.
C18_StopSeenOnlyAfterLine ==
    /\ [][\A w \in WorkerIds :
             (pc'[w] = "exit" /\ pc[w] # "exit")
                => \/ pc[w] = "stopped" /\ stop_event[w]
                   \/ pc[w] = "iter" /\ eof[w] /\ idx[w] = Len(wire[w])
                   \/ exc'[w] # "none"]_vars
    /\ [][\A w \in WorkerIds :
             (pc[w] = "line" /\ pc'[w] # pc[w])
                => IF wire[w][idx[w]] # ""
                   THEN calls' = Append(calls, wire[w][idx[w]])
                   ELSE calls' = calls /\ pc'[w] = "stopped"]_vars
    /\ []((worker # NoWorker /\ stopBeforeGet)
            => /\ idx[worker] <= 1
               /\ pc[worker] \notin {"get", "raise_for_status", "iter", "line"}
                     => calls = NonEmpty(Received(worker)))
    /\ [](\A w \in WorkerIds :
            Silent(w) => (IsAlive(w) /\ ~ENABLED WorkerThread(w)))
    /\ []((cpc = "join" /\ ctimeout = "none" /\ IsAlive(worker))
            => ~ENABLED JoinReturn)
    /\ [][(Returns("disconnect") /\ IsAlive(worker)) => cres' = "True"]_vars

\* C18 witness: stop() came before the worker issued its request;
\* disconnect(timeout) returned True, and the worker has since been handed
\* line1, the first line, and left the loop with a second line unread.
C18_Witness ==
    /\ stopBeforeGet /\ cop = "disconnect" /\ cpc = "idle" /\ cres = "True"
    /\ calls = <<"line1">> /\ callsAtStop = 0
    /\ pc[worker] = "exit" /\ Len(wire[worker]) = 2

\* ---- historical jobs ------------------------------------------------------
\* a step that is a call of accept() or reject()
AcceptOrRejectStep ==
    nJobCalls' # nJobCalls /\ jop' \in {"accept", "reject"}

\* C14: accept() and reject() on a job whose status is not "quoted" (None
\* for a job fresh from create_job included) raise
\* HistoricalJobStatusException, send no PUT and leave every field of the
\* job as it was; a PUT is sent only from status "quoted".
C14_NotQuotedRaisesWithoutPut ==
    [][/\ (AcceptOrRejectStep /\ job_status # "quoted")
            => /\ jres' = "HistoricalJobStatusException"
               /\ nPut' = nPut
               /\ UNCHANGED <<job, jargs, job_url, jobFields>>
       /\ nPut' # nPut => job_status = "quoted"]_vars

C14_Witness ==
    /\ job = "made" /\ job_status = None /\ job_url = None
    /\ jop = "accept" /\ jres = "HistoricalJobStatusException" /\ nPut = 0

\* the arguments the constructor is specified to take
ValidArgs(a) ==
    /\ a.publisher = "twitter" /\ a.stream_type = "track"
    /\ a.data_format \in VALID_DATA_FORMATS
    /\ a.from_date.kind = "datetime" /\ a.to_date.kind = "datetime"
    /\ a.to_date.t > a.from_date.t
    /\ a.title.kind = "text" /\ a.title.value # ""
    /\ a.rules.kind = "list" /\ a.rules.len <= MaxRules

\* C15: constructing a PowerTrackJob succeeds exactly when publisher is
\* "twitter", stream_type is "track", data_format is one of the two valid
\* formats, from_date and to_date are datetimes with to_date strictly
\* later, title is non-empty text and rules is a list of at most 1000
\* entries; in every other case it raises BadArgumentException and no job
\* object is returned.
C15_ValidOrBadArgument ==
    jargs # NoArgs =>
        IF ValidArgs(jargs)
        THEN job = "made"
        ELSE job = "none" /\ jres = "BadArgumentException"

\* C20: accept()/reject() update the job atomically: when the call raises,
\* status, status_message, accepted_by and accepted_at keep their previous
\* values.
C20_RaisingCallChangesNothing ==
    [][(AcceptOrRejectStep /\ jres' # "ok") => UNCHANGED jobFields]_vars


\* ---- connect() called from two threads -----------------------------------
\* C19: under every interleaving of two threads calling connect() on the
\* same client at most one Worker is ever created and started: one call
\* succeeds, the other raises the already-connected error, and
\* client.worker is never replaced by a second Worker.
C19_RacingConnectsMakeOneWorker ==
    /\ Cardinality(Created) <= 1
    /\ Cardinality(Started) <= 1
    /\ worker \in {NoWorker, 1}
    /\ (\A t \in Threads : tpc[t] = "done")
          => \E t \in Threads :
                /\ tres[t] = "ok"
                /\ \A u \in Threads \ {t} : tres[u] = "RuntimeError"


====
